---- MODULE Spec2Model ----
(***************************************************************************)
(* SmartSecurityApp (smart.py): the sensor-event -> incident -> evidence   *)
(* pipeline, as the threads of the program execute it.                     *)
(*                                                                         *)
(* Threads: the Tk/poll thread (start_detection, stop_detection,           *)
(* submit_report), one motion_detection thread, one sound_detection thread *)
(* and one PortAudio callback thread per start_detection, one record_video *)
(* worker per start_recording that acted.  The program holds no lock:      *)
(* every step                                                              *)
(* below is one read or one write of the shared fields (or a group of      *)
(* statements no other thread can tell apart), and any thread may be       *)
(* delayed between two of its steps (the HTTP posts carry no timeout).     *)
(*                                                                         *)
(* Time: time.time() is read in whole seconds.  A timestamp field is kept  *)
(* as the time elapsed since it was written (time.time() - field),         *)
(* saturated at the constant it is compared with; Tick is one second.      *)
(* A second passes only while every thread stands at a call that blocks    *)
(* (the device's next buffer, an HTTP post, time.sleep, the Tk event loop   *)
(* or a dialog): plain statements take no time.                            *)
(***************************************************************************)
EXTENDS Integers, Sequences, FiniteSets

\* ---- program constants (SmartSecurityApp.__init__) ----
EVENT_COOLDOWN == 10
RECORDING_DURATION == 10
MAX_IMAGES == 3
MAX_AUDIO == 3
EVIDENCE_INTERVAL == 5
SOUND_THRESHOLD == 3     \* 0.03, in hundredths
MOTION_THRESHOLD == 10000

\* ---- bounds of the model ----
MaxReports == 2      \* incident submissions (automatic and manual) in a run
MaxBuffers == 2      \* audio buffers delivered in a run

RmsLevels == {2, 3, 4}   \* rms of a delivered buffer, in hundredths
\* np.sum of a cv2.THRESH_BINARY image (pixels 0 or 255): a multiple of 255
DiffSums == {39 * 255, 40 * 255}
Streams == {1, 2}    \* input streams opened in a run (one per start_detection)
Workers == {1, 2}    \* record_video threads that can be alive at once
NoId == 0            \* incident_id = None
NoStream == 0        \* self.stream = None

Min(a, b) == IF a < b THEN a ELSE b

VARIABLES
    \* fields of SmartSecurityApp
    detection_active, is_recording, frames,
    since_rec,       \* time.time() - recording_start_time, capped at RECORDING_DURATION
    since_event,     \* time.time() - last_event_time, capped at EVENT_COOLDOWN + 1
    since_api,       \* time.time() - last_api_send_time, capped at EVIDENCE_INTERVAL
    sent_images, sent_audio, incident_id, incidents,
    stream_ref,      \* self.stream: the stream opened last
    motion_detected, sound_detected,   \* the two tk.IntVar
    \* threads
    stream,          \* stream[s]: "unopened" | "active" | "closed"
    sd,              \* sound_detection thread of slot s: "none" | "poll" (in its loop)
    md,              \* motion_detection thread of slot s: "none" | "loop" | "sample"
    diff_sum,        \* np.sum(threshold) in the round motion thread s is in
    pc,              \* audio_callback of stream s: "idle" or the line it stands at
    in_data,         \* buffer handed to the running callback of stream s
    gate,            \* line 299 in the running callback of stream s: "none" (no sound,
                     \* or idle) | "rejected" | "passed"
    level,           \* rms in the running callback of stream s (0 when idle)
    wpc,             \* record_video worker w: "none" | "loop" | "capture" | "send" |
                     \* "post" (waiting for the answer) | "store"
    cur,             \* time.time() - current_time of the evidence guard a thread evaluated
    tmp,             \* counter value loaded by `sent_x += 1` before its store
    resp,            \* whether the send_to_api call the thread waits on returned a body
    ui,              \* submit_report: "idle" | "error" (the dialog of line 500 is
                     \* open) | "reset" (the dialog of line 534 is open)
    \* the world outside the program
    next_id,         \* POSTs to incidents/ the remote collaborator has received
    next_buf,        \* buffers the audio device has delivered
    uploads,         \* uploads[k][i]: POSTs to evidences/ of kind k tagged incident i
    audio_files,     \* evidence/sound_<timestamp>.wav files, content of each
    image_stamp,     \* a motion_<timestamp>.jpg of the current second exists
    audio_stamp,     \* a sound_<timestamp>.wav of the current second exists
    since_trigger,   \* time since the last candidate passed the cooldown gate
    since_upload,    \* time since the last evidence guard that let an upload through
    guarded,         \* the incident id the evidence guard of a thread found, until
                     \* the thread has built its payload
    lim              \* what a run may use: streams, worker slots, reports, buffers,
                     \* the rms levels of its buffers, the answers the remote
                     \* collaborator may give, whether it is slow

vars == <<detection_active, is_recording, frames, since_rec, since_event, since_api,
          sent_images, sent_audio, incident_id, incidents, stream_ref,
          motion_detected, sound_detected,
          stream, sd, md, diff_sum, pc, in_data, gate, level, wpc, cur, tmp, resp, ui,
          next_id, next_buf, uploads, audio_files,
          image_stamp, audio_stamp, since_trigger, since_upload, guarded, lim>>

Threads == {<<"cb", s>> : s \in Streams} \cup {<<"rv", w>> : w \in Workers}
Kinds == {"IMAGE", "AUDIO"}

\* __init__ (lines 44-60): every timestamp field is 0 and time.time() is the
\* epoch clock, so every elapsed time starts beyond its constant.
InitFields ==
    /\ is_recording = FALSE
    /\ frames = <<>>
    /\ since_rec = RECORDING_DURATION
    /\ since_event = EVENT_COOLDOWN + 1
    /\ since_api = EVIDENCE_INTERVAL
    /\ sent_images = 0
    /\ sent_audio = 0
    /\ incident_id = NoId
    /\ incidents = <<>>
    /\ pc = [s \in Streams |-> "idle"]
    /\ in_data = [s \in Streams |-> 0]
    /\ gate = [s \in Streams |-> "none"]
    /\ level = [s \in Streams |-> 0]
    /\ wpc = [w \in Workers |-> "none"]
    /\ cur = [t \in Threads |-> 0]
    /\ tmp = [t \in Threads |-> 0]
    /\ resp = [t \in Threads |-> TRUE]
    /\ ui = "idle"
    /\ next_id = 0
    /\ next_buf = 0
    /\ uploads = [k \in Kinds |-> [i \in 0..lim.reports |-> 0]]
    /\ audio_files = <<>>
    /\ image_stamp = FALSE
    /\ audio_stamp = FALSE
    /\ since_trigger = EVENT_COOLDOWN + 1
    /\ since_upload = EVIDENCE_INTERVAL
    /\ guarded = [t \in Threads |-> NoId]

\* Lines 51-54 and 60: both flags are 0, detection is off, no stream is open.
InitApp ==
    /\ detection_active = FALSE
    /\ stream_ref = NoStream
    /\ stream = [s \in Streams |-> "unopened"]
    /\ sd = [s \in Streams |-> "none"]
    /\ md = [s \in Streams |-> "none"]
    /\ diff_sum = [s \in Streams |-> 0]
    /\ motion_detected = 0
    /\ sound_detected = 0
    /\ InitFields

\* The remote collaborator answers a POST: 201 with a body, or anything else
\* (send_to_api returns the body, or None).
Answers == {TRUE, FALSE}

Limits(streams, workers, reports, buffers, levels, answers, slow) ==
    [streams |-> streams, workers |-> workers, reports |-> reports,
     buffers |-> buffers, levels |-> levels, answers |-> answers, slow |-> slow]

\* A quiet level and a loud one.
QuietOrLoud == {2, 4}

\* Two streams and two workers at most, a remote collaborator that answers
\* within the second.
Init ==
    /\ lim = Limits(Streams, Workers, MaxReports, MaxBuffers, QuietOrLoud, Answers, FALSE)
    /\ InitApp

\* Detection started once: one stream, one worker at a time; the remote
\* collaborator may take any time to answer.
InitSingle ==
    /\ lim = Limits({1}, {1}, MaxReports, MaxBuffers, QuietOrLoud, Answers, TRUE)
    /\ InitApp

\* ---- groups of variables an action leaves alone ----
stream_vars == <<stream, sd, stream_ref>>
cb_vars == <<pc, in_data, gate, level>>
motion_vars == <<md, diff_sum, motion_detected>>
rv_vars == <<wpc>>
local_vars == <<cur, tmp, resp, guarded>>
budget_vars == <<sent_images, sent_audio, since_api>>
episode_vars == <<is_recording, frames, since_rec>>
file_vars == <<audio_files, image_stamp, audio_stamp>>
world_vars == <<next_id, next_buf, uploads>>

\* ---- the clock ----

\* One second passes.  Every elapsed time grows; a thread that holds a
\* current_time it has yet to store (lines 430-445, 398-413) sees it age.
InFlight(t) ==
    IF t[1] = "cb" THEN pc[t[2]] \in {"au_send", "au_post", "au_store"}
    ELSE wpc[t[2]] \in {"send", "post", "store"}

\* The places where a thread waits: between callbacks, in the multipart
\* requests.post of an evidence file (line 367), in time.sleep (line 329), in
\* the Tk event loop or a dialog (lines 500, 534).  The JSON post of an incident
\* (line 369) answers within the second; the post of a file takes a second
\* or more only in a slow run.
Blocked ==
    /\ \A s \in Streams :
         pc[s] = "idle" \/ (lim.slow /\ pc[s] = "au_post")
    /\ \A w \in Workers :
         wpc[w] \in {"none", "loop"} \/ (lim.slow /\ wpc[w] = "post")
    /\ ui \in {"idle", "error", "reset"}

Tick ==
    /\ Blocked
    /\ since_rec' = Min(since_rec + 1, RECORDING_DURATION)
    /\ since_event' = Min(since_event + 1, EVENT_COOLDOWN + 1)
    /\ since_api' = Min(since_api + 1, EVIDENCE_INTERVAL)
    /\ since_trigger' = Min(since_trigger + 1, EVENT_COOLDOWN + 1)
    /\ since_upload' = Min(since_upload + 1, EVIDENCE_INTERVAL)
    /\ cur' = [t \in Threads |->
                 IF InFlight(t) THEN Min(cur[t] + 1, EVIDENCE_INTERVAL) ELSE cur[t]]
    /\ image_stamp' = FALSE
    /\ audio_stamp' = FALSE
    /\ UNCHANGED <<lim, motion_vars, sound_detected, detection_active, is_recording, frames, sent_images, sent_audio,
                   incident_id, incidents, stream_vars, cb_vars, wpc, tmp, resp, guarded, ui,
                   world_vars, audio_files>>

\* ---- start_detection / stop_detection / sound_detection ----

\* Every start_detection opens a new stream (line 272).
FreeSlot(s) == s \in lim.streams /\ stream[s] = "unopened"

\* The slot a new stream takes (slots are interchangeable).
Lowest(S) == CHOOSE s \in S : \A r \in S : s <= r

\* Lines 184-200.  The start button is enabled, and the poll thread calls,
\* only while detection is off.  The motion_detection thread is started
\* (line 196), and the sound_detection thread (line 198), of which lines
\* 272-280: self.stream = self.audio.open(...); start_stream().
start_detection ==
    /\ ~detection_active
    /\ \E s \in Streams : FreeSlot(s)
    /\ LET s == Lowest({r \in Streams : FreeSlot(r)}) IN
         /\ md' = [md EXCEPT ![s] = "loop"]
         /\ sd' = [sd EXCEPT ![s] = "poll"]
         /\ stream' = [stream EXCEPT ![s] = "active"]
         /\ stream_ref' = s
    /\ detection_active' = TRUE
    /\ UNCHANGED <<lim, diff_sum, motion_detected, sound_detected, episode_vars, since_event, budget_vars, incident_id, incidents,
                   cb_vars, rv_vars, local_vars, ui,
                   world_vars, file_vars, since_trigger, since_upload>>

\* Lines 203-208.
stop_detection ==
    /\ detection_active
    /\ detection_active' = FALSE
    /\ UNCHANGED <<lim, motion_vars, sound_detected, episode_vars, since_event, budget_vars, incident_id, incidents,
                   stream_vars, cb_vars, rv_vars, local_vars, ui,
                   world_vars, file_vars, since_trigger, since_upload>>

\* Lines 282-290: the loop of sound_detection ends when the flag is seen
\* cleared or self.stream is not active; then self.stream.stop_stream() and
\* close().  self.stream is the stream opened last, not necessarily this
\* thread's; stop_stream returns once the stream's running callback has.
sound_detection(s) ==
    /\ sd[s] = "poll"
    /\ ~(detection_active /\ stream[stream_ref] = "active")
    /\ pc[stream_ref] = "idle"
    /\ stream' = [stream EXCEPT ![stream_ref] = "closed"]
    /\ sd' = [sd EXCEPT ![s] = "none"]
    /\ UNCHANGED <<lim, motion_vars, sound_detected, detection_active, episode_vars, since_event, budget_vars, incident_id,
                   incidents, stream_ref, cb_vars, rv_vars, local_vars, ui,
                   world_vars, file_vars, since_trigger, since_upload>>

\* ---- audio_callback (lines 292-313), one thread per active stream ----

cb(s) == <<"cb", s>>

\* The gate with >= for >.
cooldown_expired_inclusive == since_event >= EVENT_COOLDOWN

\* Lines 452-453.
cooldown_expired == since_event > EVENT_COOLDOWN

\* Lines 399-401 and 431-433: the guard of an evidence upload.
may_upload(sent, max) ==
    /\ incident_id # NoId
    /\ sent < max
    /\ since_api >= EVIDENCE_INTERVAL

\* Submissions still to be made by callbacks that passed the gate.
pending_reports == Cardinality({s \in Streams : pc[s] = "auto_report"})

\* The sound flag with >= for >.
sound_flag_inclusive(rms) == rms >= SOUND_THRESHOLD

\* Line 296.
sound_flag(rms) == rms > SOUND_THRESHOLD

\* Lines 294-299: the device delivers a buffer; rms, the sound flag
\* (sound_detected.set, line 297) and the cooldown gate.
cb_begin(s) ==
    /\ pc[s] = "idle"
    /\ stream[s] = "active"
    /\ next_buf < lim.buffers
    /\ next_buf' = next_buf + 1
    /\ \E rms \in lim.levels :
         LET sound == sound_flag(rms) IN
         /\ level' = [level EXCEPT ![s] = rms]
         /\ sound_detected' = IF sound THEN 1 ELSE 0
         /\ IF sound /\ cooldown_expired
            THEN /\ next_id + pending_reports < lim.reports
                 /\ pc' = [pc EXCEPT ![s] = "auto_report"]
                 /\ gate' = [gate EXCEPT ![s] = "passed"]
                 /\ since_trigger' = 0
            ELSE /\ pc' = [pc EXCEPT ![s] = "rec_check"]
                 /\ gate' = [gate EXCEPT ![s] = IF sound THEN "rejected" ELSE "none"]
                 /\ UNCHANGED since_trigger
    /\ in_data' = [in_data EXCEPT ![s] = next_buf + 1]
    /\ UNCHANGED <<lim, motion_vars, detection_active, episode_vars, since_event, budget_vars, incident_id,
                   incidents, stream_vars, rv_vars, local_vars, ui,
                   next_id, uploads, file_vars, since_upload>>

\* The log rebuilt from the new record alone.
log_replace(log, incident) == <<incident>>

\* Lines 485 and 530: self.incidents.append(incident), one bytecode call
\* under the interpreter lock.
log_append(log, incident) == Append(log, incident)

\* auto_report returning at a failed submission, before the local record.
auto_report_remote_only(s) ==
    /\ pc[s] = "auto_report"
    /\ \E ok \in lim.answers :
         /\ incident_id' = IF ok THEN next_id + 1 ELSE NoId
         /\ incidents' = IF ok THEN Append(incidents, "Loud Noise") ELSE incidents
         /\ resp' = [resp EXCEPT ![cb(s)] = ok]
    /\ next_id' = next_id + 1
    /\ pc' = [pc EXCEPT ![s] = "auto_reset"]
    /\ UNCHANGED <<lim, motion_vars, sound_detected, detection_active, episode_vars, since_event, budget_vars,
                   stream_vars, in_data, gate, level, rv_vars, cur, tmp, guarded, ui,
                   next_buf, uploads, file_vars, since_trigger, since_upload>>

\* Lines 472-486: api_response = send_to_api("incidents"); the id of the
\* created record, or None; self.incidents.append(incident).
\* upload_evidence_files (lines 540-570) posts nothing: evidence/images/ is
\* never created, and self.api_base is no attribute.
auto_report(s) ==
    /\ pc[s] = "auto_report"
    /\ \E ok \in lim.answers :
         /\ incident_id' = IF ok THEN next_id + 1 ELSE NoId
         /\ resp' = [resp EXCEPT ![cb(s)] = ok]
    /\ next_id' = next_id + 1
    /\ incidents' = log_append(incidents, "Loud Noise")
    /\ pc' = [pc EXCEPT ![s] = "auto_reset"]
    /\ UNCHANGED <<lim, motion_vars, sound_detected, detection_active, episode_vars, since_event, budget_vars,
                   stream_vars, in_data, gate, level, rv_vars, cur, tmp, guarded, ui,
                   next_buf, uploads, file_vars, since_trigger, since_upload>>

\* Lines 490-492; auto_report returns and api_response is dropped.
auto_report_reset(s) ==
    /\ pc[s] = "auto_reset"
    /\ sent_images' = 0
    /\ sent_audio' = 0
    /\ since_api' = 0
    /\ resp' = [resp EXCEPT ![cb(s)] = TRUE]
    /\ pc' = [pc EXCEPT ![s] = "set_event"]
    /\ UNCHANGED <<lim, motion_vars, sound_detected, detection_active, episode_vars, since_event, incident_id, incidents,
                   stream_vars, in_data, gate, level, rv_vars, cur, tmp, guarded, ui,
                   world_vars, file_vars, since_trigger, since_upload>>

\* Line 302: self.last_event_time = time.time().
cb_set_event(s) ==
    /\ pc[s] = "set_event"
    /\ since_event' = 0
    /\ pc' = [pc EXCEPT ![s] = "start_recording"]
    /\ UNCHANGED <<lim, motion_vars, sound_detected, detection_active, episode_vars, budget_vars, incident_id, incidents,
                   stream_vars, in_data, gate, level, rv_vars, local_vars, ui,
                   world_vars, file_vars, since_trigger, since_upload>>

\* start_recording without the test of line 316.
start_recording_unguarded(s) ==
    /\ pc[s] = "start_recording"
    /\ pc' = [pc EXCEPT ![s] = "rec_flag"]
    /\ UNCHANGED <<lim, motion_vars, sound_detected, detection_active, episode_vars, since_event, budget_vars, incident_id,
                   incidents, stream_vars, in_data, gate, level, rv_vars, local_vars, ui,
                   world_vars, file_vars, since_trigger, since_upload>>

\* Line 316: if not self.is_recording.
start_recording(s) ==
    /\ pc[s] = "start_recording"
    /\ pc' = [pc EXCEPT ![s] = IF is_recording THEN "rec_check" ELSE "rec_flag"]
    /\ UNCHANGED <<lim, motion_vars, sound_detected, detection_active, episode_vars, since_event, budget_vars, incident_id,
                   incidents, stream_vars, in_data, gate, level, rv_vars, local_vars, ui,
                   world_vars, file_vars, since_trigger, since_upload>>

\* Line 317.
start_recording_flag(s) ==
    /\ pc[s] = "rec_flag"
    /\ is_recording' = TRUE
    /\ pc' = [pc EXCEPT ![s] = "rec_time"]
    /\ UNCHANGED <<lim, motion_vars, sound_detected, detection_active, frames, since_rec, since_event, budget_vars,
                   incident_id, incidents, stream_vars, in_data, gate, level, rv_vars,
                   local_vars, ui, world_vars, file_vars, since_trigger, since_upload>>

\* Line 318.
start_recording_time(s) ==
    /\ pc[s] = "rec_time"
    /\ since_rec' = 0
    /\ pc' = [pc EXCEPT ![s] = "rec_frames"]
    /\ UNCHANGED <<lim, motion_vars, sound_detected, detection_active, is_recording, frames, since_event, budget_vars,
                   incident_id, incidents, stream_vars, in_data, gate, level, rv_vars,
                   local_vars, ui, world_vars, file_vars, since_trigger, since_upload>>

FreeWorker(w) == wpc[w] = "none"

\* Lines 319-321: self.frames = []; the record_video thread is started.
start_recording_spawn(s) ==
    /\ pc[s] = "rec_frames"
    /\ frames' = <<>>
    /\ \E w \in lim.workers : FreeWorker(w)
    /\ wpc' = [wpc EXCEPT ![Lowest({w \in lim.workers : FreeWorker(w)})] = "loop"]
    /\ pc' = [pc EXCEPT ![s] = "rec_check"]
    /\ UNCHANGED <<lim, motion_vars, sound_detected, detection_active, is_recording, since_rec, since_event, budget_vars,
                   incident_id, incidents, stream_vars, in_data, gate, level,
                   local_vars, ui, world_vars, file_vars, since_trigger, since_upload>>

\* The callback returns (line 313).
cb_return(s) ==
    /\ pc' = [pc EXCEPT ![s] = "idle"]
    /\ in_data' = [in_data EXCEPT ![s] = 0]
    /\ gate' = [gate EXCEPT ![s] = "none"]
    /\ level' = [level EXCEPT ![s] = 0]

\* Line 305: if self.is_recording.
cb_rec_check(s) ==
    /\ pc[s] = "rec_check"
    /\ IF is_recording
       THEN pc' = [pc EXCEPT ![s] = "append"] /\ UNCHANGED <<in_data, gate, level>>
       ELSE cb_return(s)
    /\ UNCHANGED <<lim, motion_vars, sound_detected, detection_active, episode_vars, since_event, budget_vars, incident_id,
                   incidents, stream_vars, rv_vars, local_vars, ui,
                   world_vars, file_vars, since_trigger, since_upload>>

\* Lines 306-307: self.frames.append(in_data); the episode is due after
\* RECORDING_DURATION.
cb_append(s) ==
    /\ pc[s] = "append"
    /\ frames' = Append(frames, in_data[s])
    /\ IF since_rec >= RECORDING_DURATION
       THEN pc' = [pc EXCEPT ![s] = "save_audio"] /\ UNCHANGED <<in_data, gate, level>>
       ELSE cb_return(s)
    /\ UNCHANGED <<lim, motion_vars, sound_detected, detection_active, is_recording, since_rec, since_event, budget_vars,
                   incident_id, incidents, stream_vars, rv_vars, local_vars, ui,
                   world_vars, file_vars, since_trigger, since_upload>>

\* A file written under a name of the current second replaces the one of
\* that name (time.strftime("%Y%m%d_%H%M%S"), lines 386-387 and 424-425).
write_audio(files, stamped, content) ==
    IF stamped THEN [files EXCEPT ![Len(files)] = content] ELSE Append(files, content)

\* Lines 386-401 of save_audio_evidence: the frames are written to
\* sound_<timestamp>.wav, then current_time is read and the guard evaluated.
save_audio_evidence(s) ==
    /\ pc[s] = "save_audio"
    /\ audio_files' = write_audio(audio_files, audio_stamp, frames)
    /\ audio_stamp' = TRUE
    /\ IF may_upload(sent_audio, MAX_AUDIO)
       THEN /\ pc' = [pc EXCEPT ![s] = "au_send"]
            /\ cur' = [cur EXCEPT ![cb(s)] = 0]
            /\ since_upload' = 0
            /\ guarded' = [guarded EXCEPT ![cb(s)] = incident_id]
       ELSE /\ pc' = [pc EXCEPT ![s] = "rec_done"]
            /\ UNCHANGED <<cur, since_upload, guarded>>
    /\ UNCHANGED <<lim, motion_vars, sound_detected, detection_active, episode_vars, since_event, budget_vars, incident_id,
                   incidents, stream_vars, in_data, gate, level, rv_vars, tmp, resp, ui,
                   world_vars, image_stamp, since_trigger>>

\* One POST to evidences/ tagged with the incident id read when the payload
\* is built (lines 406, 438).
post_evidence(kind, id) ==
    [uploads EXCEPT ![kind][id] = @ + 1]

\* Lines 404-411: the payload reads self.incident_id again and is posted;
\* send_to_api will return the body or None (lines 362-380).
audio_send(s) ==
    /\ pc[s] = "au_send"
    /\ uploads' = post_evidence("AUDIO", incident_id)
    /\ \E ok \in lim.answers : resp' = [resp EXCEPT ![cb(s)] = ok]
    /\ guarded' = [guarded EXCEPT ![cb(s)] = NoId]
    /\ pc' = [pc EXCEPT ![s] = "au_post"]
    /\ UNCHANGED <<lim, motion_vars, sound_detected, detection_active, episode_vars, since_event, budget_vars, incident_id,
                   incidents, stream_vars, in_data, gate, level, rv_vars, cur, tmp, ui,
                   next_id, next_buf, file_vars, since_trigger, since_upload>>

\* Lines 411-412: send_to_api returns, its result is dropped, and
\* `self.sent_audio += 1` loads the counter.
audio_load(s) ==
    /\ pc[s] = "au_post"
    /\ tmp' = [tmp EXCEPT ![cb(s)] = sent_audio]
    /\ pc' = [pc EXCEPT ![s] = "au_store"]
    /\ UNCHANGED <<lim, motion_vars, sound_detected, detection_active, episode_vars, since_event, budget_vars, incident_id,
                   incidents, stream_vars, in_data, gate, level, rv_vars, cur, resp, guarded, ui,
                   world_vars, file_vars, since_trigger, since_upload>>

\* Lines 412-413: the counter is stored; self.last_api_send_time = current_time.
audio_store(s) ==
    /\ pc[s] = "au_store"
    /\ sent_audio' = tmp[cb(s)] + 1
    /\ since_api' = cur[cb(s)]
    /\ cur' = [cur EXCEPT ![cb(s)] = 0]
    /\ tmp' = [tmp EXCEPT ![cb(s)] = 0]
    /\ resp' = [resp EXCEPT ![cb(s)] = TRUE]
    /\ pc' = [pc EXCEPT ![s] = "rec_done"]
    /\ UNCHANGED <<lim, motion_vars, sound_detected, detection_active, episode_vars, since_event, sent_images, incident_id,
                   incidents, stream_vars, in_data, gate, level, rv_vars, guarded, ui,
                   world_vars, file_vars, since_trigger, since_upload>>

\* Line 309: self.is_recording = False.
cb_rec_done(s) ==
    /\ pc[s] = "rec_done"
    /\ is_recording' = FALSE
    /\ cb_return(s)
    /\ UNCHANGED <<lim, motion_vars, sound_detected, detection_active, frames, since_rec, since_event, budget_vars,
                   incident_id, incidents, stream_vars, rv_vars, local_vars, ui,
                   world_vars, file_vars, since_trigger, since_upload>>

\* ---- record_video (lines 323-331), one thread per start_recording ----

rv(w) == <<"rv", w>>

\* Line 326: while self.is_recording and self.detection_active.  Line 327,
\* int(...) % 1 == 0, holds of every integer.
record_video(w) ==
    /\ wpc[w] = "loop"
    /\ wpc' = [wpc EXCEPT ![w] = IF is_recording /\ detection_active
                                 THEN "capture" ELSE "none"]
    /\ UNCHANGED <<lim, motion_vars, sound_detected, detection_active, episode_vars, since_event, budget_vars, incident_id,
                   incidents, stream_vars, cb_vars, local_vars, ui,
                   world_vars, file_vars, since_trigger, since_upload>>

\* capture_evidence returns and the worker sleeps (line 329): half a second,
\* so it may go round its loop more than once before the clock's next second.
rv_sleep(w) == wpc' = [wpc EXCEPT ![w] = "loop"]

\* Lines 422-433 of capture_evidence: the frame is written to
\* motion_<timestamp>.jpg, then current_time is read and the guard evaluated.
capture_evidence(w) ==
    /\ wpc[w] = "capture"
    /\ image_stamp' = TRUE
    /\ IF may_upload(sent_images, MAX_IMAGES)
       THEN /\ wpc' = [wpc EXCEPT ![w] = "send"]
            /\ cur' = [cur EXCEPT ![rv(w)] = 0]
            /\ since_upload' = 0
            /\ guarded' = [guarded EXCEPT ![rv(w)] = incident_id]
       ELSE /\ rv_sleep(w)
            /\ UNCHANGED <<cur, since_upload, guarded>>
    /\ UNCHANGED <<lim, motion_vars, sound_detected, detection_active, episode_vars, since_event, budget_vars, incident_id,
                   incidents, stream_vars, cb_vars, tmp, resp, ui,
                   world_vars, audio_files, audio_stamp, since_trigger>>

\* Lines 436-442: as audio_send, for the image.
image_send(w) ==
    /\ wpc[w] = "send"
    /\ uploads' = post_evidence("IMAGE", incident_id)
    /\ \E ok \in lim.answers : resp' = [resp EXCEPT ![rv(w)] = ok]
    /\ guarded' = [guarded EXCEPT ![rv(w)] = NoId]
    /\ wpc' = [wpc EXCEPT ![w] = "post"]
    /\ UNCHANGED <<lim, motion_vars, sound_detected, detection_active, episode_vars, since_event, budget_vars, incident_id,
                   incidents, stream_vars, cb_vars, cur, tmp, ui,
                   next_id, next_buf, file_vars, since_trigger, since_upload>>

\* Lines 442-444: as audio_load.
image_load(w) ==
    /\ wpc[w] = "post"
    /\ tmp' = [tmp EXCEPT ![rv(w)] = sent_images]
    /\ wpc' = [wpc EXCEPT ![w] = "store"]
    /\ UNCHANGED <<lim, motion_vars, sound_detected, detection_active, episode_vars, since_event, budget_vars, incident_id,
                   incidents, stream_vars, cb_vars, cur, resp, guarded, ui,
                   world_vars, file_vars, since_trigger, since_upload>>

\* Lines 444-445.
image_store(w) ==
    /\ wpc[w] = "store"
    /\ sent_images' = tmp[rv(w)] + 1
    /\ since_api' = cur[rv(w)]
    /\ cur' = [cur EXCEPT ![rv(w)] = 0]
    /\ tmp' = [tmp EXCEPT ![rv(w)] = 0]
    /\ resp' = [resp EXCEPT ![rv(w)] = TRUE]
    /\ rv_sleep(w)
    /\ UNCHANGED <<lim, motion_vars, sound_detected, detection_active, episode_vars, since_event, sent_audio, incident_id,
                   incidents, stream_vars, cb_vars, guarded, ui,
                   world_vars, file_vars, since_trigger, since_upload>>

\* ---- submit_report (lines 494-538), on the Tk thread ----

IncidentTypes == {"", "Theft"}
Descriptions == {"", "text"}

\* Line 499 with `and` for `or`.
fields_missing_both(incident_type, description) ==
    incident_type = "" /\ description = ""

\* Line 499: if not incident_type or not description.
fields_missing(incident_type, description) ==
    incident_type = "" \/ description = ""

\* Lines 496-534: with a field missing the error dialog opens (line 500);
\* otherwise send_to_api("incidents") and the id of the created record, or
\* None; self.incidents.append(incident); the success dialog opens.
submit_report ==
    /\ ui = "idle"
    /\ \E incident_type \in IncidentTypes, description \in Descriptions :
         IF fields_missing(incident_type, description)
         THEN /\ ui' = "error"
              /\ UNCHANGED <<incident_id, incidents, next_id>>
         ELSE /\ next_id + pending_reports < lim.reports
              /\ \E ok \in lim.answers :
                   incident_id' = IF ok THEN next_id + 1 ELSE NoId
              /\ next_id' = next_id + 1
              /\ incidents' = log_append(incidents, incident_type)
              /\ ui' = "reset"
    /\ UNCHANGED <<lim, motion_vars, sound_detected, detection_active, episode_vars, since_event, budget_vars,
                   stream_vars, cb_vars, rv_vars, local_vars,
                   next_buf, uploads, file_vars, since_trigger, since_upload>>

\* Lines 500-501: the error dialog is dismissed and submit_report returns.
submit_report_return ==
    /\ ui = "error"
    /\ ui' = "idle"
    /\ UNCHANGED <<lim, motion_vars, sound_detected, detection_active, episode_vars,
                   since_event, budget_vars, incident_id, incidents,
                   stream_vars, cb_vars, rv_vars, local_vars,
                   world_vars, file_vars, since_trigger, since_upload>>

\* The reset of lines 536-538 with last_event_time written as well.
submit_report_reset_event ==
    /\ ui = "reset"
    /\ sent_images' = 0
    /\ sent_audio' = 0
    /\ since_api' = 0
    /\ since_event' = 0
    /\ ui' = "idle"
    /\ UNCHANGED <<lim, motion_vars, sound_detected, detection_active, episode_vars,
                   incident_id, incidents, stream_vars, cb_vars, rv_vars, local_vars,
                   world_vars, file_vars, since_trigger, since_upload>>

\* Lines 536-538.
submit_report_reset ==
    /\ ui = "reset"
    /\ sent_images' = 0
    /\ sent_audio' = 0
    /\ since_api' = 0
    /\ ui' = "idle"
    /\ UNCHANGED <<lim, motion_vars, sound_detected, detection_active, episode_vars, since_event, incident_id, incidents,
                   stream_vars, cb_vars, rv_vars, local_vars,
                   world_vars, file_vars, since_trigger, since_upload>>

\* ---- motion_detection (lines 249-268), one thread per start_detection ----

\* The motion flag with >= for >.
motion_flag_inclusive(sum) == sum >= MOTION_THRESHOLD

\* Line 262.
motion_flag(sum) == sum > MOTION_THRESHOLD

\* Lines 254-261: a round of the loop is entered while the flag is set; a
\* frame is read and np.sum(threshold) computed.
motion_detection(s) ==
    /\ md[s] = "loop"
    /\ detection_active
    /\ md' = [md EXCEPT ![s] = "sample"]
    /\ \E sum \in DiffSums : diff_sum' = [diff_sum EXCEPT ![s] = sum]
    /\ UNCHANGED <<lim, motion_detected, sound_detected, detection_active, episode_vars,
                   since_event, budget_vars, incident_id, incidents, stream_vars, cb_vars,
                   rv_vars, local_vars, ui, world_vars, file_vars, since_trigger,
                   since_upload>>

\* Lines 262-266: motion = np.sum(threshold) > self.MOTION_THRESHOLD;
\* self.motion_detected.set(int(motion)); the thread sleeps.
motion_detected_set(s) ==
    /\ md[s] = "sample"
    /\ motion_detected' = IF motion_flag(diff_sum[s]) THEN 1 ELSE 0
    /\ diff_sum' = [diff_sum EXCEPT ![s] = 0]
    /\ md' = [md EXCEPT ![s] = "loop"]
    /\ UNCHANGED <<lim, sound_detected, detection_active, episode_vars,
                   since_event, budget_vars, incident_id, incidents, stream_vars, cb_vars,
                   rv_vars, local_vars, ui, world_vars, file_vars, since_trigger,
                   since_upload>>

\* Line 254: the loop ends when the flag is seen cleared.
motion_detection_exit(s) ==
    /\ md[s] = "loop"
    /\ ~detection_active
    /\ md' = [md EXCEPT ![s] = "none"]
    /\ UNCHANGED <<lim, diff_sum, motion_detected, sound_detected, detection_active, episode_vars,
                   since_event, budget_vars, incident_id, incidents, stream_vars, cb_vars,
                   rv_vars, local_vars, ui, world_vars, file_vars, since_trigger,
                   since_upload>>

\* ---- the program ----

AudioCallback(s) ==
    \/ cb_begin(s)
    \/ auto_report(s)
    \/ auto_report_reset(s)
    \/ cb_set_event(s)
    \/ start_recording(s)
    \/ start_recording_flag(s)
    \/ start_recording_time(s)
    \/ start_recording_spawn(s)
    \/ cb_rec_check(s)
    \/ cb_append(s)
    \/ save_audio_evidence(s)
    \/ audio_send(s)
    \/ audio_load(s)
    \/ audio_store(s)
    \/ cb_rec_done(s)

VideoWorker(w) ==
    \/ record_video(w)
    \/ capture_evidence(w)
    \/ image_send(w)
    \/ image_load(w)
    \/ image_store(w)

Next ==
    \/ Tick
    \/ start_detection
    \/ stop_detection
    \/ submit_report
    \/ submit_report_return
    \/ submit_report_reset
    \/ \E s \in Streams : sound_detection(s)
    \/ \E s \in Streams : AudioCallback(s)
    \/ \E w \in Workers : VideoWorker(w)

Spec == Init /\ [][Next]_vars

SpecSingle == InitSingle /\ [][Next]_vars

\* Next leaves the motion_detection threads unscheduled: their steps write
\* motion_detected and their own locals only, which no step of Next reads.
\* NextSensors runs them too.
MotionLoop(s) ==
    \/ motion_detection(s)
    \/ motion_detected_set(s)
    \/ motion_detection_exit(s)

NextSensors ==
    \/ Next
    \/ \E s \in Streams : MotionLoop(s)

\* Detection started once, one worker, one incident submission, a remote
\* collaborator that accepts it within the second.
InitSensors ==
    /\ lim = Limits({1}, {1}, 1, MaxBuffers, RmsLevels, {TRUE}, FALSE)
    /\ InitApp

\* Every thread that can take a step eventually does, the device of an active
\* stream keeps delivering buffers, time passes.  The user (start_detection,
\* stop_detection, submit_report, the dialogs) owes nothing.
Fairness ==
    /\ WF_vars(Tick)
    /\ \A s \in Streams :
         /\ WF_vars(AudioCallback(s))
         /\ WF_vars(sound_detection(s))
         /\ WF_vars(MotionLoop(s))
    /\ \A w \in Workers : WF_vars(VideoWorker(w))

SpecFair == InitSensors /\ [][NextSensors]_vars /\ Fairness

\* As InitSensors, with detection started at most twice.
InitRestart ==
    /\ lim = Limits(Streams, {1}, 1, MaxBuffers, QuietOrLoud, {TRUE}, FALSE)
    /\ InitApp

SpecRestart == InitRestart /\ [][NextSensors]_vars /\ Fairness

\* ---- properties ----

\* C1: in every reachable state, whatever the interleaving of the workers
\* with auto_report and submit_report, sent_images <= MAX_IMAGES and
\* sent_audio <= MAX_AUDIO.
CountersWithinCaps ==
    /\ sent_images <= MAX_IMAGES
    /\ sent_audio <= MAX_AUDIO

\* C2: for every incident id the remote collaborator returned, the image
\* uploads tagged with it never exceed MAX_IMAGES and the audio uploads tagged
\* with it never exceed MAX_AUDIO.
UploadsPerIncidentWithinCaps ==
    \A i \in 1..next_id :
        /\ uploads["IMAGE"][i] <= MAX_IMAGES
        /\ uploads["AUDIO"][i] <= MAX_AUDIO

\* A step of the callback of stream s.
cb_step(s) == pc'[s] # pc[s]

\* Line 299 is a strict gate: a sound candidate passes only when
\* more than EVENT_COOLDOWN has elapsed since last_event_time was written,
\* and is rejected only when it has not (5 and 10 rejected, 11 passes).
GateIsStrict(s) ==
    (pc[s] = "idle" /\ pc'[s] # "idle") =>
        /\ gate'[s] = "passed" => since_event > EVENT_COOLDOWN
        /\ gate'[s] = "rejected" => since_event <= EVENT_COOLDOWN

\* C3 as stated: a sound event fires an auto-report if and only if
\* now - last_event_time > EVENT_COOLDOWN, and the callback of a rejected
\* candidate leaves last_event_time, the incident log, the active incident
\* id and both upload counters unchanged.
RejectedCandidateChangesNothing ==
    [][\A s \in Streams :
         /\ GateIsStrict(s)
         /\ (gate[s] = "rejected" /\ cb_step(s)) =>
               UNCHANGED <<since_event, incidents, incident_id, sent_images, sent_audio>>]_vars

\* C3 amended: the gate is strict, and the callback of a rejected candidate
\* leaves last_event_time, the incident log, the active incident id and
\* sent_images unchanged; sent_audio changes only where that callback, having
\* flushed a due episode, counts the audio upload (line 412).
RejectedCandidateOnlyFlushes ==
    [][\A s \in Streams :
         /\ GateIsStrict(s)
         /\ (gate[s] = "rejected" /\ cb_step(s)) =>
               /\ UNCHANGED <<since_event, incidents, incident_id, sent_images>>
               /\ sent_audio' # sent_audio => pc[s] = "au_store"]_vars

\* A candidate rejected exactly EVENT_COOLDOWN after the last trigger has
\* flushed the episode of that trigger and counted its audio upload.
RejectedCandidateFlushed ==
    \E s \in Streams :
        /\ gate[s] = "rejected"
        /\ pc[s] = "rec_done"
        /\ since_event = EVENT_COOLDOWN
        /\ sent_audio = 1

\* C4: at most one auto-trigger proceeds per cooldown window, also with more
\* than one callback stream alive: a candidate passes the gate only when more
\* than EVENT_COOLDOWN has elapsed since the last candidate passed it.
OneTriggerPerWindow ==
    [][\A s \in Streams :
         (pc[s] = "idle" /\ gate'[s] = "passed") => since_trigger > EVENT_COOLDOWN]_vars

\* C5: start_recording called while is_recording is true returns having left
\* the frame buffer, recording_start_time and is_recording unchanged and
\* having spawned no worker; its body (lines 317-321) is entered only from a
\* test that found is_recording false.
StartRecordingIdempotent ==
    [][\A s \in Streams :
         /\ (pc[s] = "start_recording" /\ cb_step(s) /\ is_recording) =>
               /\ pc'[s] = "rec_check"
               /\ UNCHANGED <<is_recording, frames, since_rec, wpc>>
         /\ (pc'[s] = "rec_flag" /\ cb_step(s)) => ~is_recording]_vars

\* A second trigger found the episode of the first still active: the call
\* returned with the buffer and start time of that episode.
StartRecordingSkipped ==
    \E s \in Streams :
        /\ gate[s] = "passed"
        /\ pc[s] = "rec_check"
        /\ is_recording
        /\ frames # <<>>
        /\ since_rec > 0

\* Buffers are numbered in the order the device delivers them.
Consecutive(q) == \A i \in 1..(Len(q) - 1) : q[i + 1] = q[i] + 1

\* C6: an episode returns to IDLE (is_recording becomes false) no earlier
\* than RECORDING_DURATION after it started, and then its flushed audio file
\* holds the buffers delivered since it started, in arrival order, none lost
\* and none duplicated.
EpisodeRunsItsDuration ==
    [][(is_recording /\ ~is_recording') =>
          /\ since_rec >= RECORDING_DURATION
          /\ audio_files # <<>>
          /\ audio_files[Len(audio_files)] = frames
          /\ frames # <<>>
          /\ Consecutive(frames)]_vars

\* C7: every capture is persisted as its own timestamped file: no capture
\* writes motion_<timestamp>.jpg under a name an earlier capture has used (so
\* six captures leave six files), and sent_images stops at MAX_IMAGES.
EveryCaptureKeepsItsFile ==
    [][\A w \in Workers :
         (wpc[w] = "capture" /\ wpc'[w] # "capture") =>
             /\ ~image_stamp
             /\ sent_images <= MAX_IMAGES]_vars

\* An evidence guard (lines 399-401, 431-433) lets an upload through.
upload_admitted ==
    \/ \E w \in Workers : wpc[w] = "capture" /\ wpc'[w] = "send"
    \/ \E s \in Streams : pc[s] = "save_audio" /\ pc'[s] = "au_send"

\* C8: any two remote evidence uploads, of either kind, are at least
\* EVIDENCE_INTERVAL apart: an upload is let through only when at least
\* EVIDENCE_INTERVAL has elapsed since the last one was.
UploadsSpacedByInterval ==
    [][upload_admitted => since_upload >= EVIDENCE_INTERVAL]_vars

\* C9: when the forward of an evidence item fails (send_to_api returns None),
\* the thread that made it leaves sent_images, sent_audio and
\* last_api_send_time unchanged.
FailedForwardChangesNothing ==
    [][/\ \A w \in Workers :
            (wpc[w] = "store" /\ wpc'[w] # "store" /\ ~resp[rv(w)]) =>
                UNCHANGED <<sent_images, sent_audio, since_api>>
       /\ \A s \in Streams :
            (pc[s] = "au_store" /\ cb_step(s) /\ ~resp[cb(s)]) =>
                UNCHANGED <<sent_images, sent_audio, since_api>>]_vars

\* The last incident submission was made by submit_report and failed.
manual_report_failed ==
    /\ incidents # <<>>
    /\ incidents[Len(incidents)] \in IncidentTypes
    /\ incident_id = NoId

\* C10: a submit_report whose remote submission fails appends exactly one
\* local record and leaves the active incident id empty, and from then on no
\* evidence upload is attempted until a later submission succeeds.
FailedReportStopsUploads ==
    [][/\ (ui = "idle" /\ ui' = "reset" /\ incident_id' = NoId) =>
              /\ Len(incidents') = Len(incidents) + 1
              /\ manual_report_failed'
       /\ manual_report_failed => uploads' = uploads]_vars

\* C11: every auto_report appends exactly one local record and resets
\* sent_images and sent_audio to 0 and last_api_send_time to now, whether or
\* not the remote submission succeeded; the active incident id it stores is
\* the identifier the remote collaborator returned, or empty if the
\* submission failed.
AutoReportContract ==
    [][\A s \in Streams :
         /\ (pc[s] = "auto_report" /\ cb_step(s)) =>
               /\ incidents' = Append(incidents, "Loud Noise")
               /\ incident_id' = IF resp'[cb(s)] THEN next_id' ELSE NoId
               /\ pc'[s] = "auto_reset"
         /\ (pc[s] = "auto_reset" /\ cb_step(s)) =>
               /\ sent_images' = 0 /\ sent_audio' = 0 /\ since_api' = 0
               /\ UNCHANGED <<incidents, incident_id>>]_vars

\* A second auto_report failed after evidence of the first incident had been
\* uploaded: two local records, no active incident id, counters back at 0.
AutoReportFailedRecorded ==
    \E s \in Streams :
        /\ pc[s] = "set_event"
        /\ incidents = <<"Loud Noise", "Loud Noise">>
        /\ incident_id = NoId
        /\ uploads["IMAGE"][1] > 0
        /\ sent_images = 0 /\ sent_audio = 0 /\ since_api = 0

\* C12: every auto-trigger performs the IDLE -> RECORDING transition: when
\* its start_recording is called the previous episode has ended
\* (is_recording is false), so the call enters its body and starts an episode
\* of its own.
EveryTriggerStartsEpisode ==
    [][\A s \in Streams :
         (pc[s] = "start_recording" /\ cb_step(s)) =>
             /\ ~is_recording
             /\ pc'[s] = "rec_flag"]_vars

\* The device of the run can deliver no further buffer.
device_exhausted == next_buf = lim.buffers

\* C13: either sensor loop can open an incident: a motion sample above
\* MOTION_THRESHOLD, taken while detection is active and the cooldown has
\* expired, leads to an auto-report (a local Incident is appended), as a
\* sound sample above SOUND_THRESHOLD does, unless detection is stopped
\* first.
MotionOpensIncident ==
    (detection_active /\ motion_detected = 1 /\ cooldown_expired /\ incidents = <<>>)
        ~> (incidents # <<>> \/ ~detection_active)

\* C14: a submit_report with an empty incident type or an empty description
\* is rejected before any state mutation: the incident log, the active
\* incident id, sent_images, sent_audio and last_api_send_time are unchanged
\* and no remote submission is made; a report that is accepted has its type
\* filled in.
RejectedReportChangesNothing ==
    [][/\ ((ui = "idle" /\ ui' = "error") \/ (ui = "error" /\ ui' = "idle")) =>
              UNCHANGED <<incidents, incident_id, sent_images, sent_audio, since_api,
                          next_id, uploads>>
       /\ (ui = "idle" /\ ui' = "reset") =>
              /\ Len(incidents') = Len(incidents) + 1
              /\ incidents'[Len(incidents')] # ""]_vars

\* A report was rejected while an incident was open and an image of it had
\* been counted: the id and the counter are as they were.
ReportRejectedMidIncident ==
    /\ ui = "error"
    /\ incident_id # NoId
    /\ sent_images > 0
    /\ Len(incidents) = 1

\* C15: at every sample of the motion loop the motion flag equals
\* (diff_sum > MOTION_THRESHOLD), and at every audio buffer the sound flag
\* equals (rms > SOUND_THRESHOLD), both comparisons strict: a value equal to
\* its threshold yields false.
FlagsFollowStrictThresholds ==
    [][/\ \A s \in Streams :
            (md[s] = "sample" /\ md'[s] = "loop") =>
                motion_detected' = IF diff_sum[s] > MOTION_THRESHOLD THEN 1 ELSE 0
       /\ \A s \in Streams :
            (pc[s] = "idle" /\ pc'[s] # "idle") =>
                /\ sound_detected' = IF level'[s] > SOUND_THRESHOLD THEN 1 ELSE 0
                /\ gate'[s] # "none" => level'[s] > SOUND_THRESHOLD]_vars

\* A buffer whose rms equals SOUND_THRESHOLD has cleared the sound flag that
\* the loud buffer before it had set, and the motion flag is set.
ThresholdBufferIsQuiet ==
    \E s \in Streams :
        /\ level[s] = SOUND_THRESHOLD
        /\ sound_detected = 0
        /\ incidents = <<"Loud Noise">>
        /\ motion_detected = 1

\* A step of auto_report or submit_report that stores the local record.
report_recorded ==
    \/ \E s \in Streams : pc[s] = "auto_report" /\ pc'[s] = "auto_reset"
    \/ ui = "idle" /\ ui' = "reset"

\* C16: the incident log is append-only: every auto_report and every
\* accepted submit_report extends it by exactly one record at the end, no
\* other step changes it, and the earlier log stays a prefix of the later
\* one, also when the two run on different threads.
IncidentLogAppendOnly ==
    [][/\ report_recorded =>
              /\ Len(incidents') = Len(incidents) + 1
              /\ SubSeq(incidents', 1, Len(incidents)) = incidents
       /\ ~report_recorded => incidents' = incidents]_vars

\* A manual report was recorded while an auto_report that had stored its
\* record was still before its counter reset: both records are in the log,
\* in the order they were appended.
ReportsInterleaved ==
    \E s \in Streams :
        /\ pc[s] = "auto_reset"
        /\ ui = "reset"
        /\ incidents = <<"Loud Noise", "Theft">>

\* C17: every episode that becomes active is eventually flushed and the
\* state machine returns to IDLE (while the device of the run can still
\* deliver a buffer), under fair scheduling and whatever the calls of
\* start_detection and stop_detection, stop_detection during the episode
\* included.
EpisodeEventuallyFlushed ==
    is_recording ~> (~is_recording \/ device_exhausted)

\* C18: on the RECORDING -> IDLE transition the frame buffer is cleared: in
\* every state where the state machine is IDLE after a flush (is_recording
\* false, an audio evidence file written), the frame buffer is empty.
IdleBufferEmpty ==
    (~is_recording /\ audio_files # <<>>) => frames = <<>>

\* C19: submit_report never touches the recording state machine or the
\* cooldown gate: its steps leave is_recording, recording_start_time, the
\* frame buffer and last_event_time unchanged, and last_event_time is
\* written only on the auto-trigger path (line 302, by a callback whose
\* candidate passed the gate).
SubmitReportLeavesEpisodeAlone ==
    [][/\ ui' # ui => UNCHANGED <<is_recording, since_rec, frames, since_event>>
       /\ since_event' < since_event =>
              \E s \in Streams : /\ pc[s] = "set_event"
                                  /\ pc'[s] = "start_recording"
                                  /\ gate[s] = "passed"]_vars

\* A manual report was submitted and its dialog dismissed during the episode
\* of an automatic incident: the episode and the cooldown run on.
ReportedDuringEpisode ==
    /\ ui = "idle"
    /\ incidents = <<"Loud Noise", "Theft">>
    /\ is_recording
    /\ frames # <<>>
    /\ since_rec \in 1..(RECORDING_DURATION - 1)
    /\ since_event \in 1..(EVENT_COOLDOWN - 1)
    /\ since_api = 0

\* The sensor loops started by the start_detection of slot s are running.
loops_alive(s) == md[s] # "none" \/ sd[s] # "none"

\* C20: after stop_detection has cleared detection_active, every sensor
\* worker that was running (motion loop, audio loop, video-capture worker)
\* eventually terminates under fair scheduling, also when start_detection is
\* called again before the worker has seen the cleared flag.
StoppedWorkersTerminate ==
    /\ \A s \in Streams : (~detection_active /\ loops_alive(s)) ~> ~loops_alive(s)
    /\ \A w \in Workers : (~detection_active /\ wpc[w] # "none") ~> (wpc[w] = "none")

\* A callback is flushing: it has found the episode due (line 307) and is in
\* save_audio_evidence before writeframes has taken the buffer (line 393).
flushing(s) == pc[s] = "save_audio"

\* C21: appends to the frame buffer, its replacement at the start of an
\* episode, and the flush are mutually exclusive: while a callback is
\* flushing, no step appends to the buffer or replaces it.
FlushExcludesAppend ==
    [][(\E s \in Streams : flushing(s)) => frames' = frames]_vars

\* C22: 'recording while stopped' is unreachable: in every reachable state
\* is_recording implies detection_active.
RecordingOnlyWhileDetecting ==
    is_recording => detection_active

\* The record_video workers that are alive.
alive_workers == {w \in Workers : wpc[w] # "none"}

\* C23: at most one record_video worker is alive at any time: the worker of
\* one episode has terminated before start_recording spawns the worker of the
\* next, so capture_evidence is never executed by two workers at once.
OneVideoWorker ==
    Cardinality(alive_workers) <= 1

\* A thread builds the payload of an evidence upload and posts it (lines
\* 404-411, 436-443).
upload_sent(t) ==
    IF t[1] = "cb" THEN pc[t[2]] = "au_send" /\ pc'[t[2]] = "au_post"
    ELSE wpc[t[2]] = "send" /\ wpc'[t[2]] = "post"

\* C24: every evidence upload carries a non-empty incident id, the one that
\* was active when the upload guard was evaluated: no auto_report or
\* submit_report running between the guard and the construction of the
\* payload makes the upload carry an empty id or another incident's.
UploadCarriesGuardedId ==
    [][\A t \in Threads :
         upload_sent(t) => /\ incident_id # NoId
                           /\ incident_id = guarded[t]]_vars

====
